---- MODULE Spec2Model ----
(***************************************************************************)
(* Mythos / MythicTales: the story generation pipeline (handleGenerate),   *)
(* the narration player and the story store, in the two builds of the App  *)
(* the repository holds:                                                   *)
(*   "sequential": src/index.tsx        (for-loop assembly, IndexedDB,     *)
(*                                       handleNarrationPlay)              *)
(*   "fanout":     src/unnamed/part_001 (Promise.all assembly,             *)
(*                                       localStorage, playNarration)      *)
(* Strings are modelled as tuples of tokens: the empty string is << >>.    *)
(***************************************************************************)
EXTENDS Integers, Sequences, FiniteSets, TLC

VARIABLES
  variant,            \* which build of App runs
  view,               \* useState<View>
  stories,            \* useState<Story[]>
  activeStory,        \* useState<Story | null>: << >> is null, <<s>> is s
  currentPageIndex,   \* useState(0), 0-based as in the source
  alertCount,         \* number of alert(...) dialogs shown
  loadPending,        \* sequential: a getFromDB() of the load effect is in flight
  db,                 \* IndexedDB object store 'chronicles' (keyPath id)
  localStorage,       \* localStorage['mythos_stories']: << >> absent, <<json>>
  live,               \* ids of the stories saved and not deleted since
  lastOp,             \* the last operation on the story list or the store
  removals,           \* sequential: deleteStory calls awaiting removeFromDB
  failLog,            \* how each failed persistence operation ended
  isGenerating,       \* useState(false)
  genProgress,        \* useState({current, total, step})
  genPc,              \* where the running handleGenerate is suspended
  pageCount,          \* useState(5), range input min 3
  result,             \* what generateStoryContent resolved to
  loopI,              \* sequential: the loop index i (0-based)
  imgUrl,             \* sequential: the imgUrl local of the iteration
  finalPages,         \* the finalPages array
  tasks,              \* fanout: one async map callback per page
  closureStories,     \* `stories` as captured by the handler's closure
  newStory,           \* the newStory object: << >> before it is built
  clock,              \* Date.now()
  narrLog,            \* per page: how the narration service answered
  saveOutcome,        \* how the saveToDB transaction of the run ended
  outOfOrder,         \* fanout: a page finished before an earlier page
  isNarrating,        \* useState(false)
  audioContextRef,    \* "null", or the state of the AudioContext it holds
  audioSourceRef,     \* 0 is null, k is the k-th source created
  sources,            \* every AudioBufferSourceNode created so far
  calls,              \* fanout: playNarration calls awaiting ctx.resume()
  lastReq,            \* the last request made to the player: play or stop
  call,               \* the last call of a library function: arguments, result
  faulty,             \* whether the transactions of the store can fail
  isGeneratingImages, \* fanout: newStory.isGeneratingImages, as a JSON value
  contentRequests     \* calls of generateStoryContent made so far

appVars == <<variant, view, stories, activeStory, currentPageIndex, alertCount,
             loadPending>>
storeVars == <<db, localStorage, live, lastOp, removals, failLog>>
genVars == <<isGenerating, genProgress, genPc, pageCount, result, loopI, imgUrl,
             finalPages, tasks, closureStories, newStory, clock, narrLog, saveOutcome,
             outOfOrder>>
playerVars == <<isNarrating, audioContextRef, audioSourceRef, sources, calls,
                lastReq>>
runVars == <<isGeneratingImages, contentRequests>>
vars == <<appVars, storeVars, genVars, playerVars, call, faulty, runVars>>

(***************************************************************************)
(* Bounds of the model and constants of the program.                       *)
(***************************************************************************)
MaxPages == 4        \* most page drafts the content service answers with
MinPageCount == 3    \* <input type="range" min="3">
Retries == 2         \* generateNarration(text, mood, retries = 2)
\* Math.random() during a generation run: handleGenerate never reads the
\* value, so the run tells no two values apart.
GenRandomValues == {1}

Undefined == <<"undefined">>
EmptyString == << >>
\* the completion of an awaited call that rejected
Thrown == <<"thrown">>

\* JavaScript truthiness of a string-or-undefined value
Truthy(v) == v # Undefined /\ v # EmptyString

(***************************************************************************)
(* geminiService.ts                                                        *)
(***************************************************************************)
\* What the image model draws for a prompt, and the speech it reads for a text.
ImageBytes(prompt) == <<"png", prompt>>
AudioBytes(text) == <<"pcm", text>>

ImageOutcomes == {"inline", "noparts", "error"}
NarrationOutcomes == {"audio", "empty", "error"}

\* generateImageForPage without its last line (the fallback return)
generateImageNoFallback(prompt, outcome, rnd) ==
  IF outcome = "inline"
    THEN <<"data:image/png;base64,", ImageBytes(prompt)>>
    ELSE Undefined

\* generateImageForPage: the data URL of the first inlineData part, else
\* (no such part, or the request threw) the picsum URL with Math.random().
generateImageForPage(prompt, outcome, rnd) ==
  IF outcome = "inline"
    THEN <<"data:image/png;base64,", ImageBytes(prompt)>>
    ELSE <<"https://picsum.photos/1024/1024?random=", rnd>>

\* cleanTextForTTS throws (TypeError) on a text that is no string.
cleanTextThrows(text) == text = Undefined

\* The loop with a catch block that rethrows after the last attempt
RECURSIVE narrationLoopRethrow(_, _, _, _)
narrationLoopRethrow(i, text, svc, retries) ==
  IF i > retries THEN Undefined
  ELSE IF svc[i + 1] = "audio" THEN AudioBytes(text)
  ELSE IF svc[i + 1] = "error" /\ i = retries THEN Thrown
  ELSE narrationLoopRethrow(i + 1, text, svc, retries)

\* The for loop of generateNarration from attempt i (0-based) on; svc[k] is the
\* service's answer to the k-th request.
RECURSIVE narrationLoop(_, _, _, _)
narrationLoop(i, text, svc, retries) ==
  IF i > retries THEN Undefined
  ELSE IF svc[i + 1] = "audio" THEN AudioBytes(text)
  ELSE IF svc[i + 1] = "error" /\ i = retries THEN Undefined
  ELSE narrationLoop(i + 1, text, svc, retries)

\* generateNarration rejecting when it has no audio to return
generateNarrationRejects(text, svc) ==
  IF cleanTextThrows(text) \/ \A k \in DOMAIN svc : svc[k] # "audio"
    THEN Thrown
    ELSE AudioBytes(text)

\* cleanTextForTTS runs before the loop, outside its try block.
generateNarration(text, svc) ==
  IF cleanTextThrows(text) THEN Thrown
  ELSE narrationLoop(0, text, svc, Retries)

\* The answers of the narration service to the requests of one call: no
\* request follows an audio payload, and at most Retries + 1 are made.
ServiceAnswers ==
  UNION {{svc \in [1..n -> NarrationOutcomes] :
            /\ \A k \in 1..(n - 1) : svc[k] # "audio"
            /\ (n < Retries + 1 => svc[n] = "audio")} : n \in 1..(Retries + 1)}

\* How the narration service answered one page, for the record: "audio" when
\* some attempt was answered with an audio payload, "failed" when every
\* attempt threw or came back without one, "none" when it was never asked.
NarrationClass(text, svc) ==
  IF cleanTextThrows(text) THEN "none"
  ELSE IF \E k \in DOMAIN svc : svc[k] = "audio" THEN "audio" ELSE "failed"

(***************************************************************************)
(* generateStoryContent: JSON.parse(response.text)                         *)
(***************************************************************************)
Draft(i) == [text |-> <<"text", i>>, imagePrompt |-> <<"prompt", i>>]
\* a page object whose text is missing
BadDraft(i) == [text |-> Undefined, imagePrompt |-> <<"prompt", i>>]

Drafts(n, bad) == [i \in 1..n |-> IF i = bad THEN BadDraft(i) ELSE Draft(i)]

\* shape: "throw" (request or JSON.parse threw), "null" (JSON null),
\* "nopages" (no pages member), "notarray" (pages is an object), "array".
ContentResults ==
  {[shape |-> s, title |-> <<"title">>, pages |-> << >>] :
     s \in {"throw", "null", "nopages", "notarray"}}
  \cup {[shape |-> "array", title |-> <<"title">>, pages |-> Drafts(n, bad)] :
          n \in 0..MaxPages, bad \in 0..1}

(***************************************************************************)
(* The stores                                                              *)
(***************************************************************************)
\* how a transaction of the store can end: TRUE is success
TxOutcomes == IF faulty THEN BOOLEAN ELSE {TRUE}

\* how failed persistence operations can end: the caller catches the error
\* and alerts, or the error is never handled, or the promise never settles
SaveAlerted == [op |-> "save", outcome |-> "alert"]
LoadUnhandled == [op |-> "load", outcome |-> "unhandled"]
DeleteHung == [op |-> "delete", outcome |-> "hung"]

\* objectStore.put(story): insert or replace the record with that key
dbPut(store, story) == {s \in store : s.id # story.id} \cup {story}

\* the effect on [stories]: localStorage.setItem when stories.length > 0
storiesEffect(ls, list) ==
  IF Len(list) > 0 THEN <<list>> ELSE ls

(***************************************************************************)
(* handleGenerate                                                          *)
(***************************************************************************)
Page(draft, url, audio) ==
  [text |-> draft.text, imagePrompt |-> draft.imagePrompt,
   imageUrl |-> url, audioData |-> audio]

\* the page the fanout catch block returns: {...page, imageUrl: <unsplash>}
FallbackPage(draft) ==
  [text |-> draft.text, imagePrompt |-> draft.imagePrompt,
   imageUrl |-> <<"https://images.unsplash.com/photo-1543004223-249377484407">>,
   audioData |-> Undefined]

MakeStory(t, title, pages) ==
  [id |-> t, title |-> title, pages |-> pages, createdAt |-> t,
   isFavorite |-> FALSE]

\* a catch block with no finally after it: isGenerating stays as it is
GenCatchNoFinally ==
  /\ alertCount' = alertCount + 1
  /\ isGenerating' = isGenerating
  /\ genPc' = "done"

\* catch (e) { alert(...) } finally { setIsGenerating(false) }
GenCatch ==
  /\ alertCount' = alertCount + 1
  /\ isGenerating' = FALSE
  /\ genPc' = "done"

RECURSIVE SortByCreatedAtAsc(_)
\* the records of getAll() sorted oldest first
SortByCreatedAtAsc(S) ==
  IF S = {} THEN << >>
  ELSE LET m == CHOOSE s \in S : \A t \in S : t.createdAt >= s.createdAt
       IN <<m>> \o SortByCreatedAtAsc(S \ {m})

RECURSIVE SortByCreatedAtDesc(_)
\* data.sort((a, b) => b.createdAt - a.createdAt) on the records of getAll()
SortByCreatedAtDesc(S) ==
  IF S = {} THEN << >>
  ELSE LET m == CHOOSE s \in S : \A t \in S : t.createdAt <= s.createdAt
       IN <<m>> \o SortByCreatedAtDesc(S \ {m})

\* sequential: the effect on [view, activeStory] runs again when one of them
\* changed, and calls getFromDB()
loadEffect ==
  loadPending' = (loadPending \/ (/\ variant = "sequential"
                                  /\ (view' # view
                                      \/ activeStory' # activeStory)))

\* sequential: getFromDB() resolves:
\* setStories(data.sort((a, b) => b.createdAt - a.createdAt))
getFromDBReturns ==
  /\ UNCHANGED <<call, faulty, runVars>>
  /\ variant = "sequential"
  /\ loadPending
  /\ loadPending' = FALSE
  /\ \E ok \in TxOutcomes :
       IF ok
         THEN /\ stories' = SortByCreatedAtDesc(db)
              /\ lastOp' = "reload"
              /\ UNCHANGED failLog
         ELSE \* the promise rejects and nothing handles it
              /\ failLog' = failLog \cup {LoadUnhandled}
              /\ UNCHANGED <<stories, lastOp>>
  /\ UNCHANGED <<view, activeStory, currentPageIndex, alertCount,
                 db, localStorage, live, removals, genVars,
                 playerVars, variant>>

\* setIsGenerating(true); setGenProgress({current: 0, total: pageCount});
\* then the request to generateStoryContent is in flight.
GenStart ==
  /\ UNCHANGED <<call, faulty, isGeneratingImages>>
  /\ UNCHANGED playerVars
  /\ genPc = "idle"
  /\ (variant = "fanout" => ~isGenerating)
  /\ contentRequests' = contentRequests + 1
  /\ isGenerating' = TRUE
  /\ genProgress' = [current |-> 0, total |-> pageCount]
  /\ closureStories' = stories
  /\ genPc' = "content"
  /\ UNCHANGED <<appVars, storeVars, pageCount, result, loopI, imgUrl,
                 finalPages, tasks, newStory, clock, narrLog, saveOutcome,
                 outOfOrder>>

\* sequential: generateStoryContent resolves or rejects; the loop starts.
SeqContentReturns ==
  /\ UNCHANGED <<call, faulty, runVars>>
  /\ UNCHANGED playerVars
  /\ variant = "sequential"
  /\ genPc = "content"
  /\ \E r \in ContentResults :
       /\ result' = r
       /\ IF r.shape \in {"throw", "null", "nopages"}
            THEN \* result.title / result.pages.length throws a TypeError
                 /\ GenCatch
                 /\ UNCHANGED <<newStory, genProgress, loopI, narrLog>>
            ELSE /\ newStory' = <<MakeStory(clock, r.title, << >>)>>
                 /\ narrLog' = [i \in 1..Len(r.pages) |-> "none"]
                 /\ loopI' = 0
                 /\ IF Len(r.pages) > 0
                      THEN /\ genProgress' = [current |-> 1, total |-> pageCount]
                           /\ genPc' = "image"
                      ELSE /\ genPc' = "save"
                           /\ UNCHANGED genProgress
                 /\ UNCHANGED <<alertCount, isGenerating>>
  /\ UNCHANGED <<variant, view, stories, activeStory, currentPageIndex,
                 storeVars, pageCount, imgUrl, finalPages, tasks,
                 closureStories, clock, saveOutcome, outOfOrder>>
  /\ loadEffect

\* sequential: generateImageForPage resolves; generateNarration is called.
SeqImageReturns ==
  /\ UNCHANGED <<call, faulty, runVars>>
  /\ UNCHANGED playerVars
  /\ variant = "sequential"
  /\ genPc = "image"
  /\ \E o \in ImageOutcomes, rnd \in GenRandomValues :
       imgUrl' = generateImageForPage(result.pages[loopI + 1].imagePrompt, o, rnd)
  /\ genPc' = "narration"
  /\ UNCHANGED <<appVars, storeVars, isGenerating, genProgress, pageCount,
                 result, loopI, finalPages, tasks, closureStories, newStory,
                 clock, narrLog, saveOutcome, outOfOrder>>

\* sequential: generateNarration resolves (finalPages.push, next iteration)
\* or rejects (the catch block of handleGenerate).
SeqNarrationReturns ==
  /\ UNCHANGED <<call, faulty, runVars>>
  /\ UNCHANGED playerVars
  /\ variant = "sequential"
  /\ genPc = "narration"
  /\ \E svc \in ServiceAnswers :
       LET draft == result.pages[loopI + 1]
           audio == generateNarration(draft.text, svc) IN
       /\ narrLog' = [narrLog EXCEPT
                        ![loopI + 1] = NarrationClass(draft.text, svc)]
       /\ IF audio = Thrown
         THEN /\ GenCatch
              /\ UNCHANGED <<finalPages, loopI, genProgress>>
         ELSE /\ finalPages' = Append(finalPages, Page(draft, imgUrl, audio))
              /\ loopI' = loopI + 1
              /\ IF loopI + 1 < Len(result.pages)
                   THEN /\ genProgress' =
                             [current |-> loopI + 2, total |-> pageCount]
                        /\ genPc' = "image"
                   ELSE /\ genPc' = "save"
                        /\ UNCHANGED genProgress
              /\ UNCHANGED <<alertCount, isGenerating>>
  /\ UNCHANGED <<variant, view, stories, activeStory, currentPageIndex,
                 storeVars, pageCount, result, imgUrl, tasks, closureStories,
                 newStory, clock, saveOutcome, outOfOrder>>
  /\ loadEffect

\* sequential: newStory.pages = finalPages; await saveToDB(newStory) ends
\* (tx.oncomplete or tx.onerror); the state updates after it.
SeqSaveReturns ==
  /\ UNCHANGED <<call, faulty, runVars>>
  /\ UNCHANGED playerVars
  /\ variant = "sequential"
  /\ genPc = "save"
  /\ LET story == [newStory[1] EXCEPT !.pages = finalPages] IN
     \E ok \in TxOutcomes :
       IF ok
         THEN /\ db' = dbPut(db, story)
              /\ live' = live \cup {story.id}
              /\ lastOp' = "save"
              /\ UNCHANGED <<removals, failLog>>
              /\ saveOutcome' = "ok"
              /\ stories' = <<story>> \o closureStories
              /\ activeStory' = <<story>>
              /\ currentPageIndex' = 0
              /\ view' = "reader"
              /\ isGenerating' = FALSE
              /\ genPc' = "done"
              /\ UNCHANGED alertCount
         ELSE /\ GenCatch
              /\ saveOutcome' = "error"
              /\ failLog' = failLog \cup {SaveAlerted}
              /\ UNCHANGED <<db, live, lastOp, removals, stories, activeStory,
                             currentPageIndex, view>>
  /\ UNCHANGED <<variant, localStorage, genProgress, pageCount, result, loopI,
                 imgUrl, finalPages, tasks, closureStories, newStory, clock,
                 narrLog, outOfOrder>>
  /\ loadEffect

\* a newStory literal whose flag is false from the start
NewStoryFlagCleared == "false"

\* isGeneratingImages: true of the newStory literal
NewStoryFlag == "true"

\* fanout: after Promise.all: newStory.isGeneratingImages = false, the story
\* is listed and opened; the [stories] effect writes localStorage.
FanFinish(built, pages) ==
  LET story == [built EXCEPT !.pages = pages] IN
  /\ finalPages' = pages
  /\ stories' = <<story>> \o stories
  /\ localStorage' = storiesEffect(localStorage, <<story>> \o stories)
  /\ live' = live \cup {story.id}
  /\ lastOp' = "save"
  /\ UNCHANGED <<removals, failLog>>
  /\ activeStory' = <<story>>
  /\ currentPageIndex' = 0
  /\ view' = "reader"
  /\ isGeneratingImages' = "false"
  /\ isGenerating' = FALSE
  /\ genPc' = "done"

\* results collected last-first instead of by position
TaskPagesReversed(ts) == [i \in DOMAIN ts |-> ts[Len(ts) + 1 - i].page]

\* Promise.all(assetPromises): the results by position
TaskPages(ts) == [i \in DOMAIN ts |-> ts[i].page]

\* fanout: generateStoryContent resolves or rejects; every page's callback
\* runs to its first await.
FanContentReturns ==
  /\ UNCHANGED <<call, faulty, contentRequests>>
  /\ UNCHANGED playerVars
  /\ variant = "fanout"
  /\ genPc = "content"
  /\ \E r \in ContentResults :
       /\ result' = r
       /\ IF r.shape \in {"throw", "null", "nopages", "notarray"}
            THEN \* !result || !result.pages, or result.pages.map is no function
                 /\ GenCatch
                 /\ UNCHANGED <<newStory, tasks, narrLog, finalPages, stories,
                                localStorage, live, lastOp, removals, failLog,
                                activeStory, isGeneratingImages,
                                currentPageIndex, view>>
            ELSE /\ newStory' = <<MakeStory(clock, r.title, r.pages)>>
                 /\ narrLog' = [i \in 1..Len(r.pages) |-> "none"]
                 /\ tasks' = [i \in 1..Len(r.pages) |->
                                [pc |-> "image", page |-> FallbackPage(r.pages[i])]]
                 /\ IF Len(r.pages) = 0
                      THEN FanFinish(MakeStory(clock, r.title, r.pages), << >>)
                      ELSE /\ genPc' = "assets"
                           /\ isGeneratingImages' = NewStoryFlag
                           /\ UNCHANGED <<finalPages, stories, localStorage,
                                          live, lastOp, removals, failLog,
                                          activeStory,
                                          currentPageIndex, view, isGenerating>>
                 /\ UNCHANGED alertCount
  /\ UNCHANGED <<variant, db, genProgress, pageCount, loopI, imgUrl,
                 closureStories, clock, saveOutcome, outOfOrder>>
  /\ loadEffect

\* fanout: the callback of page i finished (returned its page); when it was
\* the last one Promise.all resolves and handleGenerate runs to its end.
FanTaskDone(i, page) ==
  LET ts == [tasks EXCEPT ![i] = [pc |-> "done", page |-> page]] IN
  /\ tasks' = ts
  /\ outOfOrder' = (outOfOrder \/ \E j \in 1..(i - 1) : tasks[j].pc # "done")
  /\ IF \A j \in DOMAIN ts : ts[j].pc = "done"
       THEN FanFinish(newStory[1], TaskPages(ts))
       ELSE UNCHANGED <<finalPages, stories, localStorage, live, lastOp,
                        removals, failLog, isGeneratingImages,
                        activeStory, currentPageIndex, view, isGenerating,
                        genPc>>

\* fanout, page i: generateImageForPage resolves; generateNarration is called.
FanImageReturns(i) ==
  /\ UNCHANGED <<call, faulty, runVars>>
  /\ UNCHANGED playerVars
  /\ variant = "fanout"
  /\ genPc = "assets"
  /\ tasks[i].pc = "image"
  /\ \E o \in ImageOutcomes, rnd \in GenRandomValues :
       tasks' = [tasks EXCEPT ![i] =
          [pc |-> "narration",
           page |-> Page(result.pages[i],
                         generateImageForPage(result.pages[i].imagePrompt, o, rnd),
                         Undefined)]]
  /\ UNCHANGED <<appVars, storeVars, isGenerating, genProgress, genPc,
                 pageCount, result, loopI, imgUrl, finalPages, closureStories,
                 newStory, clock, narrLog, saveOutcome, outOfOrder>>

\* fanout, page i: generateNarration resolves (the progress counter is
\* advanced and the page returned) or rejects (the callback's catch block
\* returns the page with the fallback image).
FanNarrationReturns(i) ==
  /\ UNCHANGED <<call, faulty, contentRequests>>
  /\ UNCHANGED playerVars
  /\ variant = "fanout"
  /\ genPc = "assets"
  /\ tasks[i].pc = "narration"
  /\ \E svc \in ServiceAnswers :
       LET draft == result.pages[i]
           audio == generateNarration(draft.text, svc) IN
       /\ narrLog' = [narrLog EXCEPT ![i] = NarrationClass(draft.text, svc)]
       /\ IF audio = Thrown
         THEN /\ FanTaskDone(i, FallbackPage(draft))
              /\ UNCHANGED genProgress
         ELSE /\ FanTaskDone(i, Page(draft, tasks[i].page.imageUrl, audio))
              /\ genProgress' =
                   [genProgress EXCEPT !.current = genProgress.current + 1]
  /\ UNCHANGED <<variant, alertCount, db, pageCount, result, loopI, imgUrl,
                 closureStories, newStory, clock, saveOutcome>>
  /\ loadEffect

(***************************************************************************)
(* Properties of the generation run                                        *)
(***************************************************************************)
\* the assembly of the pages ran to its end (whatever saveToDB did after it)
AssemblyComplete ==
  /\ result.shape = "array"
  /\ \/ variant = "sequential" /\ genPc \in {"save", "done"}
                               /\ loopI = Len(result.pages)
     \/ variant = "fanout" /\ genPc = "done"

\* every page object of the content result has its text
ItemsWellFormed ==
  /\ result.shape = "array"
  /\ \A i \in DOMAIN result.pages : result.pages[i].text # Undefined

TheStory == [newStory[1] EXCEPT !.pages = finalPages]

\* the story is in the store of the build
Stored ==
  IF variant = "sequential" THEN TheStory \in db
  ELSE /\ localStorage # << >>
       /\ \E k \in DOMAIN localStorage[1] : localStorage[1][k] = TheStory

\* the story heads the list and is open in the reader
HandedOn ==
  /\ Len(stories) > 0 /\ stories[1] = TheStory
  /\ activeStory = <<TheStory>>
  /\ view = "reader"
  /\ currentPageIndex = 0

\* C1: the assembled pages are as many as the drafts, and page i carries the
\* text and the imagePrompt of draft i, in the loop and in the fan-out, in
\* whatever order the pages' requests complete; the story handed on has them.
C1_OrderPreserved ==
  AssemblyComplete =>
    /\ Len(finalPages) = Len(result.pages)
    /\ \A i \in DOMAIN finalPages :
         /\ finalPages[i].text = result.pages[i].text
         /\ finalPages[i].imagePrompt = result.pages[i].imagePrompt
    /\ (activeStory # << >> => activeStory[1].pages = finalPages)

\* a fan-out run of at least the smallest story length whose pages did not
\* finish in page order, assembled and opened
C1_Witness ==
  /\ AssemblyComplete /\ variant = "fanout" /\ outOfOrder
  /\ Len(finalPages) >= MinPageCount
  /\ HandedOn

\* C2: after assembly every page has a non-empty imageUrl, whatever the image
\* service answered (an image, no image part, an error), for each page.
C2_ImageUrlNonEmpty ==
  AssemblyComplete =>
    \A i \in DOMAIN finalPages : Truthy(finalPages[i].imageUrl)

\* the image service failed for every page of an assembled story
C2_Witness ==
  /\ AssemblyComplete
  /\ Len(finalPages) >= MinPageCount
  /\ \A i \in DOMAIN finalPages :
       finalPages[i].imageUrl[1] = "https://picsum.photos/1024/1024?random="

\* the page the run holds for draft i once its narration step is over
NarratedPage(i) ==
  IF variant = "sequential" THEN finalPages[i] ELSE tasks[i].page

PageAssembled(i) ==
  IF variant = "sequential" THEN i \in DOMAIN finalPages
  ELSE tasks[i].pc = "done"

\* C3: a page whose narration failed (no attempt was answered with audio) has
\* no audioData, and the failure does not reach handleGenerate's catch block:
\* the run ends with the story listed and opened and no alert.
C3_NarrationFailureAbsorbed ==
  /\ ( /\ genPc = "done"
       /\ ItemsWellFormed
       /\ saveOutcome # "error"
       /\ \E i \in DOMAIN narrLog : narrLog[i] = "failed" )
     => (alertCount = 0 /\ AssemblyComplete /\ HandedOn)
  /\ \A i \in DOMAIN narrLog :
       narrLog[i] = "failed" =>
         (PageAssembled(i) /\ NarratedPage(i).audioData = Undefined)

\* narration failed for every page of a run that ended
C3_Witness ==
  /\ genPc = "done" /\ AssemblyComplete /\ saveOutcome # "error"
  /\ Len(finalPages) >= MinPageCount
  /\ \A i \in DOMAIN narrLog : narrLog[i] = "failed"
  /\ HandedOn

\* narration failed on page j and on no other page
FailsOnlyOn(j) ==
  /\ j \in DOMAIN narrLog
  /\ narrLog[j] = "failed"
  /\ \A i \in DOMAIN narrLog : i # j => narrLog[i] = "audio"

\* C4: when narration fails on page j only, every other page keeps the audio
\* the service returned for it, every page has an imageUrl, the story is
\* stored and opened and no alert is shown.
C4_FailureIsLocal ==
  \A j \in DOMAIN narrLog :
    (genPc = "done" /\ ItemsWellFormed /\ saveOutcome # "error" /\ FailsOnlyOn(j))
    => /\ alertCount = 0
       /\ AssemblyComplete
       /\ Len(finalPages) = Len(result.pages)
       /\ \A i \in DOMAIN finalPages :
            /\ i # j => finalPages[i].audioData = AudioBytes(result.pages[i].text)
            /\ Truthy(finalPages[i].imageUrl)
       /\ finalPages[j].audioData = Undefined
       /\ Stored
       /\ HandedOn

\* the scenario of the specification: three pages, a failure on page 2 only
C4_Witness ==
  /\ genPc = "done" /\ saveOutcome # "error"
  /\ Len(result.pages) = 3 /\ ItemsWellFormed
  /\ FailsOnlyOn(2)
  /\ finalPages[1].audioData # Undefined /\ finalPages[3].audioData # Undefined

\* C5: the progress counter never exceeds the total (the requested page
\* count), and when assembly is complete it equals the number of drafts.
C5_ProgressBounded ==
  /\ genProgress.current <= genProgress.total
  /\ (AssemblyComplete => genProgress.current = Len(result.pages))

\* the content result is not a title with exactly pageCount page drafts
Malformed ==
  \/ result.shape \in {"null", "nopages", "notarray"}
  \/ result.shape = "array" /\ Len(result.pages) # pageCount

\* C9: a malformed content result ends the run with an error reported, no
\* story persisted, none added to the list and the reader not opened.
C9_MalformedFailsFast ==
  (genPc = "done" /\ Malformed) =>
    /\ alertCount > 0
    /\ db = {}
    /\ localStorage = << >>
    /\ stories = << >>
    /\ view # "reader"

\* C22: whenever the isGeneratingImages flag of the story is false, the
\* callback of every page draft has finished: its image request and its
\* narration call are over, with or without a result.
C22_FlagClearedAfterAllPages ==
  isGeneratingImages = "false" =>
    /\ result.shape = "array"
    /\ DOMAIN tasks = DOMAIN result.pages
    /\ \A i \in DOMAIN tasks : tasks[i].pc = "done"

\* the flag was cleared on a story of at least the smallest length, one of
\* whose pages finished without narration
C22_Witness ==
  /\ isGeneratingImages = "false"
  /\ Len(tasks) >= MinPageCount
  /\ \E i \in DOMAIN narrLog : narrLog[i] = "failed"
  /\ \E i \in DOMAIN narrLog : narrLog[i] = "audio"

\* the pages of the run that have been put together
PagesDone ==
  IF variant = "sequential" THEN Len(finalPages)
  ELSE Cardinality({i \in DOMAIN tasks : tasks[i].pc = "done"})

\* C23: at every moment of a generation that got its page drafts, and when
\* it has ended, the progress counter equals the number of pages put
\* together so far, whether their requests succeeded or failed.
C23_CounterCountsCompleted ==
  genPc \in {"image", "narration", "assets", "save", "done"} =>
    (result.shape = "array" => genProgress.current = PagesDone)

\* no library function has been called
NoCall == [fn |-> "none"]

\* the player as constructed: nothing created, nothing playing
PlayerIdle ==
  /\ call = NoCall
  /\ isNarrating = FALSE
  /\ audioContextRef = "null"
  /\ audioSourceRef = 0
  /\ sources = << >>
  /\ calls = << >>
  /\ lastReq = "none"

\* no run of handleGenerate has started
GenIdle ==
  /\ isGenerating = FALSE
  /\ genProgress = [current |-> 0, total |-> 0]
  /\ genPc = "idle"
  /\ pageCount = MinPageCount
  /\ result = [shape |-> "none", title |-> << >>, pages |-> << >>]
  /\ loopI = 0
  /\ imgUrl = Undefined
  /\ finalPages = << >>
  /\ tasks = << >>
  /\ closureStories = << >>
  /\ newStory = << >>
  /\ clock = 1
  /\ narrLog = << >>
  /\ saveOutcome = "none"
  /\ outOfOrder = FALSE
  /\ isGeneratingImages = "undefined"
  /\ contentRequests = 0

GenInit ==
  /\ variant \in {"sequential", "fanout"}
  /\ view = "generator"
  /\ stories = << >>
  /\ activeStory = << >>
  /\ currentPageIndex = 0
  /\ alertCount = 0
  /\ loadPending = FALSE
  /\ db = {}
  /\ localStorage = << >>
  /\ live = {}
  /\ lastOp = "load"
  /\ removals = << >>
  /\ failLog = {}
  /\ faulty = TRUE
  /\ GenIdle
  /\ PlayerIdle

GenNext ==
  \/ getFromDBReturns
  \/ GenStart
  \/ SeqContentReturns
  \/ SeqImageReturns
  \/ SeqNarrationReturns
  \/ SeqSaveReturns
  \/ FanContentReturns
  \/ \E i \in 1..MaxPages : i \in DOMAIN tasks /\ FanImageReturns(i)
  \/ \E i \in 1..MaxPages : i \in DOMAIN tasks /\ FanNarrationReturns(i)

\* One run of handleGenerate, in either build.
SpecGen == GenInit /\ [][GenNext]_vars

(***************************************************************************)
(* The reader: navigation and the narration player                         *)
(***************************************************************************)
MaxSources == 3      \* most AudioBufferSourceNodes created in one session

\* A saved story of three pages, the third one without narration.
ReaderStory ==
  MakeStory(1, <<"title">>,
            <<Page(Draft(1), ImageBytes(Draft(1).imagePrompt),
                   AudioBytes(Draft(1).text)),
              Page(Draft(2), ImageBytes(Draft(2).imagePrompt),
                   AudioBytes(Draft(2).text)),
              Page(Draft(3), ImageBytes(Draft(3).imagePrompt), Undefined)>>)

\* a narration payload with an odd number of bytes
TruncatedAudio == <<"pcm", "odd">>

\* the story of the reader with the payload of its second page cut short
ReaderStoryTruncated ==
  [ReaderStory EXCEPT !.pages[2].audioData = TruncatedAudio]

\* whether customDecodeAudioData / decodeAudioData returns a buffer for the
\* payload: new Int16Array(data.buffer) throws on an odd byte length
Decodes(audioData) == audioData # TruncatedAudio

\* const page = activeStory.pages[currentPageIndex]
HasPage ==
  /\ view = "reader"
  /\ activeStory # << >>
  /\ currentPageIndex + 1 \in DOMAIN activeStory[1].pages

CurrentPage == activeStory[1].pages[currentPageIndex + 1]

Playing(srcs) == {k \in DOMAIN srcs : srcs[k].st = "playing"}

\* source.stop(): a playing source stops and its ended event is queued;
\* on a source that is no longer playing the call changes nothing
StopSource(srcs, k) ==
  IF k \in DOMAIN srcs /\ srcs[k].st = "playing"
  THEN [srcs EXCEPT ![k] = [@ EXCEPT !.st = "stopped", !.pending = TRUE]]
  ELSE srcs

\* createBufferSource(); source.buffer = ...; source.start()
NewSource(clip, prev) ==
  [clip |-> clip, st |-> "playing", pending |-> FALSE, prev |-> prev]

\* stopAudio (fanout build): stop the tracked source, forget it, and
\* setIsNarrating(false)
stopAudio ==
  /\ sources' = StopSource(sources, audioSourceRef)
  /\ audioSourceRef' = 0
  /\ isNarrating' = FALSE
  /\ lastReq' = "stop"
  /\ UNCHANGED <<audioContextRef, calls>>

\* what a navigation handler does to the player: the fanout handlers call
\* stopAudio() first, the sequential handlers only set view or page index
NavPlayer ==
  IF variant = "fanout" THEN stopAudio ELSE UNCHANGED playerVars

\* <Sidebar onViewChange=...>: setView(v), after stopAudio() in the fanout build
SidebarViewChange(v) ==
  /\ UNCHANGED <<call, faulty, runVars>>
  /\ view' = v
  /\ NavPlayer
  /\ UNCHANGED <<variant, stories, activeStory, currentPageIndex, alertCount,
                 storeVars, genVars>>
  /\ loadEffect

\* the library card's button: setActiveStory(story); setCurrentPageIndex(0);
\* setView('reader')
openStory(k) ==
  /\ UNCHANGED <<call, faulty, runVars>>
  /\ view = "library"
  /\ k \in DOMAIN stories
  /\ activeStory' = <<stories[k]>>
  /\ currentPageIndex' = 0
  /\ view' = "reader"
  /\ UNCHANGED <<variant, stories, alertCount, storeVars, genVars, playerVars>>
  /\ loadEffect

\* the reader's Library button
LibraryButton ==
  /\ UNCHANGED <<call, faulty, runVars>>
  /\ HasPage
  /\ view' = "library"
  /\ NavPlayer
  /\ UNCHANGED <<variant, stories, activeStory, currentPageIndex, alertCount,
                 storeVars, genVars>>
  /\ loadEffect

\* disabled={currentPageIndex === 0}; setCurrentPageIndex(p => p - 1)
PrevPage ==
  /\ UNCHANGED <<call, faulty, runVars>>
  /\ HasPage
  /\ currentPageIndex # 0
  /\ currentPageIndex' = currentPageIndex - 1
  /\ NavPlayer
  /\ UNCHANGED <<variant, view, stories, activeStory, alertCount,
                 storeVars, genVars>>
  /\ loadEffect

\* disabled={currentPageIndex === pages.length - 1};
\* setCurrentPageIndex(p => p + 1)
NextPage ==
  /\ UNCHANGED <<call, faulty, runVars>>
  /\ HasPage
  /\ currentPageIndex # Len(activeStory[1].pages) - 1
  /\ currentPageIndex' = currentPageIndex + 1
  /\ NavPlayer
  /\ UNCHANGED <<variant, view, stories, activeStory, alertCount,
                 storeVars, genVars>>
  /\ loadEffect

\* the page-indicator dots of the sequential build: setCurrentPageIndex(idx)
PageDot(idx) ==
  /\ UNCHANGED <<call, faulty, runVars>>
  /\ variant = "sequential"
  /\ HasPage
  /\ idx + 1 \in DOMAIN activeStory[1].pages
  /\ currentPageIndex' = idx
  /\ UNCHANGED <<variant, view, stories, activeStory, alertCount,
                 storeVars, genVars, playerVars>>
  /\ loadEffect

Min(a, b) == IF a < b THEN a ELSE b
Max(a, b) == IF a > b THEN a ELSE b

\* the keydown listener of the sequential build
handleKeyDown(key) ==
  /\ UNCHANGED <<call, faulty, runVars>>
  /\ variant = "sequential"
  /\ view = "reader"
  /\ activeStory # << >>
  /\ \/ /\ key = "ArrowRight"
        /\ currentPageIndex' =
             Min(Len(activeStory[1].pages) - 1, currentPageIndex + 1)
        /\ UNCHANGED view
     \/ /\ key = "ArrowLeft"
        /\ currentPageIndex' = Max(0, currentPageIndex - 1)
        /\ UNCHANGED view
     \/ /\ key = "Escape"
        /\ view' = "library"
        /\ UNCHANGED currentPageIndex
  /\ UNCHANGED <<variant, stories, activeStory, alertCount,
                 storeVars, genVars, playerVars>>
  /\ loadEffect

\* new AudioContext(...) when the ref is empty; the browser hands it over
\* running or suspended
ContextAfterEnsure ==
  IF audioContextRef = "null" THEN {"running", "suspended"}
  ELSE {audioContextRef}

\* the narration button of the sequential build: toggle on isNarrating
handleNarrationPlay ==
  /\ UNCHANGED <<call, faulty, runVars>>
  /\ variant = "sequential"
  /\ HasPage
  /\ Truthy(CurrentPage.audioData)
  /\ IF isNarrating
     THEN /\ sources' = StopSource(sources, audioSourceRef)
          /\ isNarrating' = FALSE
          /\ lastReq' = "stop"
          /\ UNCHANGED <<audioContextRef, audioSourceRef, calls>>
     ELSE /\ audioContextRef' \in ContextAfterEnsure
          /\ IF Decodes(CurrentPage.audioData)
             THEN /\ Len(sources) < MaxSources
                  /\ sources' = Append(sources,
                                       NewSource(CurrentPage.audioData, lastReq))
                  /\ audioSourceRef' = Len(sources) + 1
                  /\ isNarrating' = TRUE
                  /\ lastReq' = "play"
             ELSE \* catch (e) { setIsNarrating(false) }
                  /\ isNarrating' = FALSE
                  /\ lastReq' = "playfailed"
                  /\ UNCHANGED <<sources, audioSourceRef>>
          /\ UNCHANGED calls
  /\ UNCHANGED <<appVars, storeVars, genVars>>

\* the narration button of the fanout build:
\* isNarrating ? stopAudio() : playNarration(page.audioData).
\* playNarration stops the tracked source, then either starts the new source
\* at once or, on a suspended context, waits for ctx.resume()
NarrationButton ==
  /\ UNCHANGED <<call, faulty, runVars>>
  /\ variant = "fanout"
  /\ HasPage
  /\ Truthy(CurrentPage.audioData)
  /\ IF isNarrating
     THEN stopAudio
     ELSE /\ Len(sources) + Len(calls) < MaxSources
          /\ \E ctx \in ContextAfterEnsure :
               /\ audioContextRef' = ctx
               /\ IF ctx = "suspended"
                  THEN /\ sources' = StopSource(sources, audioSourceRef)
                       /\ audioSourceRef' = 0
                       /\ isNarrating' = FALSE
                       /\ lastReq' = "play"
                       /\ calls' = Append(calls,
                                    [clip |-> CurrentPage.audioData,
                                     prev |-> lastReq])
                  ELSE IF Decodes(CurrentPage.audioData)
                  THEN /\ sources' =
                            Append(StopSource(sources, audioSourceRef),
                                   NewSource(CurrentPage.audioData, lastReq))
                       /\ audioSourceRef' = Len(sources) + 1
                       /\ isNarrating' = TRUE
                       /\ lastReq' = "play"
                       /\ UNCHANGED calls
                  ELSE \* decodeAudioData throws: the promise of
                       \* playNarration rejects after stopAudio()
                       /\ sources' = StopSource(sources, audioSourceRef)
                       /\ audioSourceRef' = 0
                       /\ isNarrating' = FALSE
                       /\ lastReq' = "playfailed"
                       /\ UNCHANGED calls
  /\ UNCHANGED <<appVars, storeVars, genVars>>

\* ctx.resume() resolves for the oldest waiting playNarration call, which
\* goes on to decode its payload and to create and start its source
ResumeReturns ==
  /\ UNCHANGED <<call, faulty, runVars>>
  /\ calls # << >>
  /\ audioContextRef' = "running"
  /\ IF Decodes(Head(calls).clip)
     THEN /\ sources' = Append(sources,
                               NewSource(Head(calls).clip, Head(calls).prev))
          /\ audioSourceRef' = Len(sources) + 1
          /\ isNarrating' = TRUE
          /\ UNCHANGED lastReq
     ELSE /\ lastReq' = "playfailed"
          /\ UNCHANGED <<sources, audioSourceRef, isNarrating>>
  /\ calls' = Tail(calls)
  /\ UNCHANGED <<appVars, storeVars, genVars>>

\* a callback that leaves isNarrating as it is
onendedKeeps(narrating) == narrating

\* source.onended = () => setIsNarrating(false): the value isNarrating gets
onended(narrating) == FALSE

\* a source plays to its end: onended runs setIsNarrating(false)
SourceEnds(k) ==
  /\ UNCHANGED <<call, faulty, runVars>>
  /\ k \in DOMAIN sources
  /\ sources[k].st = "playing"
  /\ sources' = [sources EXCEPT ![k] = [@ EXCEPT !.st = "ended"]]
  /\ isNarrating' = onended(isNarrating)
  /\ UNCHANGED <<appVars, storeVars, genVars, audioContextRef,
                 audioSourceRef, calls, lastReq>>

\* the ended event of a source that stop() ended: onended runs as well
EndedAfterStop(k) ==
  /\ UNCHANGED <<call, faulty, runVars>>
  /\ k \in DOMAIN sources
  /\ sources[k].pending
  /\ sources' = [sources EXCEPT ![k] = [@ EXCEPT !.pending = FALSE]]
  /\ isNarrating' = onended(isNarrating)
  /\ UNCHANGED <<appVars, storeVars, genVars, audioContextRef,
                 audioSourceRef, calls, lastReq>>

\* the application after its start-up load, one story in the store
PlayerInitWith(story) ==
  /\ variant \in {"sequential", "fanout"}
  /\ view = "generator"
  /\ stories = <<story>>
  /\ activeStory = << >>
  /\ currentPageIndex = 0
  /\ alertCount = 0
  /\ loadPending = FALSE
  /\ db = IF variant = "sequential" THEN {story} ELSE {}
  /\ localStorage = IF variant = "fanout" THEN <<stories>> ELSE << >>
  /\ live = {story.id}
  /\ lastOp = "load"
  /\ removals = << >>
  /\ failLog = {}
  /\ faulty = FALSE
  /\ GenIdle
  /\ PlayerIdle

PlayerInit == PlayerInitWith(ReaderStory)

PlayerNext ==
  \/ getFromDBReturns
  \/ \E v \in {"generator", "library"} : SidebarViewChange(v)
  \/ \E k \in 1..1 : openStory(k)
  \/ LibraryButton
  \/ PrevPage
  \/ NextPage
  \/ \E idx \in 0..2 : PageDot(idx)
  \/ \E key \in {"ArrowRight", "ArrowLeft", "Escape"} : handleKeyDown(key)
  \/ handleNarrationPlay
  \/ NarrationButton
  \/ ResumeReturns
  \/ \E k \in 1..MaxSources : SourceEnds(k)
  \/ \E k \in 1..MaxSources : EndedAfterStop(k)

\* Reading a stored story: navigation and narration, in either build.
SpecPlayer == PlayerInit /\ [][PlayerNext]_vars

\* Reading a stored story one of whose payloads cannot be decoded.
SpecPlayerFaults == PlayerInitWith(ReaderStoryTruncated) /\ [][PlayerNext]_vars

(***************************************************************************)
(* A generation run while the user keeps using the page                    *)
(***************************************************************************)
MaxRequests == 2     \* most calls of generateStoryContent in one behaviour

\* the positions in which a run of handleGenerate is suspended at an await
Running == {"content", "image", "narration", "assets", "save"}

\* the Manifest Story / Create Story button is activated while a run is in
\* progress (the overlay covers the page but the button keeps the focus).
\* sequential: handleGenerate has no guard: the flag and the progress are
\* set again and a second generateStoryContent request is made.
\* fanout: the button is disabled and handleGenerate returns at once.
handleGenerateAgain ==
  /\ UNCHANGED <<call, faulty, isGeneratingImages>>
  /\ genPc \in Running
  /\ view = "generator"
  /\ contentRequests < MaxRequests
  /\ IF variant = "fanout" /\ isGenerating
       THEN UNCHANGED <<isGenerating, genProgress, contentRequests>>
       ELSE /\ isGenerating' = TRUE
            /\ genProgress' = [current |-> 0, total |-> pageCount]
            /\ contentRequests' = contentRequests + 1
  /\ UNCHANGED <<appVars, storeVars, playerVars, genPc, pageCount, result,
                 loopI, imgUrl, finalPages, tasks, closureStories, newStory,
                 clock, narrLog, saveOutcome, outOfOrder>>

\* the steps in which a request of the running generation returns
GenSteps ==
  \/ SeqContentReturns
  \/ SeqImageReturns
  \/ SeqNarrationReturns
  \/ SeqSaveReturns
  \/ FanContentReturns
  \/ \E i \in 1..MaxPages : i \in DOMAIN tasks /\ FanImageReturns(i)
  \/ \E i \in 1..MaxPages : i \in DOMAIN tasks /\ FanNarrationReturns(i)

GenLiveNext ==
  \/ GenNext
  \/ handleGenerateAgain

\* One run of handleGenerate while the user keeps activating the generate
\* button; every request of the run returns or fails in the end.
SpecGenLive == GenInit /\ [][GenLiveNext]_vars /\ WF_vars(GenSteps)

\* a step leaves a running generation suspended or moves it on
NotSetBack ==
  genPc \in Running =>
    /\ genPc' \in Running \cup {"done"}
    /\ (result' = result \/ genPc = "content")
    /\ PagesDone' >= PagesDone

C27_OneGenerationAtATime ==
  [][(genPc \in Running) => UNCHANGED contentRequests]_vars

(***************************************************************************)
(* Properties of the narration player                                      *)
(***************************************************************************)
\* a source has just been created and started
Started == Len(sources') = Len(sources) + 1

\* C6: when a play request follows a play request with no stop request in
\* between, the step that starts the second clip leaves it the only source
\* playing, and audioSourceRef tracks it.
C6_PlayThenPlay ==
  [][(Started /\ sources'[Len(sources')].prev = "play")
       => /\ Playing(sources') = {Len(sources')}
          /\ audioSourceRef' = Len(sources')]_vars

\* C7: in every reachable state at most one source has been started and
\* has neither been stopped nor ended.
C7_AtMostOnePlaying == Cardinality(Playing(sources)) <= 1

\* C8: every step that leaves the reader view or changes the page index
\* ends with no source playing and isNarrating false.
C8_NavigationStops ==
  [][(view = "reader" /\ (view' # "reader"
                            \/ currentPageIndex' # currentPageIndex))
       => /\ Playing(sources') = {}
          /\ ~isNarrating']_vars

\* C30: a play request that fails before playback starts leaves the player
\* idle: isNarrating false, no source playing, audioSourceRef empty.
C30_FailedPlayEndsIdle ==
  [][(lastReq # "playfailed" /\ lastReq' = "playfailed")
       => /\ ~isNarrating'
          /\ Playing(sources') = {}
          /\ audioSourceRef' = 0]_vars

\* C28: whenever the reader is shown with an active story, the page index
\* is an index of that story's pages: 0 <= currentPageIndex < pages.length.
C28_PageIndexInRange ==
  (view = "reader" /\ activeStory # << >>) =>
    /\ 0 <= currentPageIndex
    /\ currentPageIndex < Len(activeStory[1].pages)

\* C26: in every reachable state isNarrating is true exactly when the
\* source audioSourceRef tracks has been started and has neither been
\* stopped nor ended.
C26_FlagAgreesWithPlayback ==
  isNarrating <=> (/\ audioSourceRef \in DOMAIN sources
                   /\ sources[audioSourceRef].st = "playing")

(***************************************************************************)
(* The story store: IndexedDB (sequential build), localStorage (fanout)    *)
(***************************************************************************)
MaxStories == 2      \* most stories generated in one behaviour
MaxRemovals == 2     \* most removeFromDB calls in flight at once

Ids(list) == {list[k].id : k \in DOMAIN list}

\* stories.filter(s => s.id !== id)
FilterOut(list, id) == SelectSeq(list, LAMBDA s : s.id # id)

\* what the start-up effect puts into stories: getFromDB() sorted, or the
\* parsed 'mythos_stories' item when there is one
LoadedStories ==
  IF variant = "sequential" THEN SortByCreatedAtDesc(db)
  ELSE IF localStorage # << >> THEN localStorage[1] ELSE << >>

\* a run of handleGenerate reaches its end with a one-page story:
\* sequential: await saveToDB(newStory), then the list and the reader;
\* fanout: setStories(prev => [newStory, ...prev]) and the [stories] effect
GenerateAndSave ==
  /\ UNCHANGED <<call, faulty, isGeneratingImages>>
  /\ clock <= MaxStories
  /\ view = "generator"
  /\ clock' = clock + 1
  /\ contentRequests' = contentRequests + 1
  /\ LET story == MakeStory(clock, <<"title", clock>>,
                            <<Page(Draft(1), ImageBytes(Draft(1).imagePrompt),
                                   Undefined)>>) IN
     \E ok \in TxOutcomes :
       IF ok \/ variant = "fanout"
         THEN /\ IF variant = "sequential"
                   THEN /\ db' = dbPut(db, story)
                        /\ UNCHANGED localStorage
                   ELSE /\ localStorage' =
                             storiesEffect(localStorage, <<story>> \o stories)
                        /\ UNCHANGED db
              /\ live' = live \cup {story.id}
              /\ lastOp' = "save"
              /\ UNCHANGED <<removals, failLog>>
              /\ stories' = <<story>> \o stories
              /\ activeStory' = <<story>>
              /\ currentPageIndex' = 0
              /\ view' = "reader"
              /\ UNCHANGED alertCount
         ELSE /\ alertCount' = alertCount + 1
              /\ failLog' = failLog \cup {SaveAlerted}
              /\ UNCHANGED <<db, localStorage, live, lastOp, removals, stories,
                             activeStory, currentPageIndex, view>>
  /\ UNCHANGED <<variant, isGenerating, genProgress, genPc, pageCount, result,
                 loopI, imgUrl, finalPages, tasks, closureStories, newStory,
                 narrLog, saveOutcome, outOfOrder, playerVars>>
  /\ loadEffect

\* the library card's delete button, confirm() answered with OK.
\* sequential: removeFromDB(id) is called and awaited; the rest of the
\* handler keeps the stories and activeStory of the render it was made in,
\* activeStory as the outcome of its only use, activeStory?.id === id.
\* fanout: the list is filtered and the [stories] effect runs.
deleteStory(k) ==
  /\ UNCHANGED <<call, faulty, runVars>>
  /\ view = "library"
  /\ k \in DOMAIN stories
  /\ LET id == stories[k].id IN
     IF variant = "sequential"
       THEN /\ Len(removals) < MaxRemovals
            /\ removals' =
                 Append(removals,
                        [id |-> id, stories |-> stories,
                         activeIsId |-> /\ activeStory # << >>
                                        /\ activeStory[1].id = id])
            /\ UNCHANGED <<db, localStorage, live, lastOp, failLog, stories,
                           activeStory>>
       ELSE /\ stories' = FilterOut(stories, id)
            /\ localStorage' =
                 storiesEffect(localStorage, FilterOut(stories, id))
            /\ live' = live \ {id}
            /\ lastOp' = "delete"
            /\ activeStory' = IF activeStory # << >> /\ activeStory[1].id = id
                               THEN << >> ELSE activeStory
            /\ UNCHANGED <<db, removals, failLog>>
  /\ UNCHANGED <<variant, view, currentPageIndex, alertCount, genVars,
                 playerVars>>
  /\ loadEffect

\* sequential: the transaction of the oldest removeFromDB call ends.
\* tx.oncomplete: the record is gone (deleting an absent key completes as
\* well), the list becomes the handler's stories without the id, and the
\* view becomes the library when the handler's activeStory had that id.
\* A failing transaction has no handler: the promise never settles.
removeFromDBReturns ==
  /\ UNCHANGED <<call, faulty, runVars>>
  /\ variant = "sequential"
  /\ removals # << >>
  /\ removals' = Tail(removals)
  /\ LET r == Head(removals) IN
     \E ok \in TxOutcomes :
       IF ok
         THEN /\ db' = {s \in db : s.id # r.id}
              /\ stories' = FilterOut(r.stories, r.id)
              /\ view' = IF r.activeIsId THEN "library" ELSE view
              /\ live' = live \ {r.id}
              /\ lastOp' = "delete"
              /\ UNCHANGED failLog
         ELSE /\ failLog' = failLog \cup {DeleteHung}
              /\ UNCHANGED <<db, stories, view, live, lastOp>>
  /\ UNCHANGED <<variant, activeStory, currentPageIndex, alertCount,
                 localStorage, genVars, playerVars>>
  /\ loadEffect

\* a toggle that also empties the pages
flipFavoriteDropPages(s) == [s EXCEPT !.isFavorite = ~@, !.pages = << >>]

\* { ...s, isFavorite: !s.isFavorite }
flipFavorite(s) == [s EXCEPT !.isFavorite = ~@]

\* fanout: toggleFavorite(id) and the [stories] effect
toggleFavorite(k) ==
  /\ UNCHANGED <<call, faulty, runVars>>
  /\ variant = "fanout"
  /\ view = "library"
  /\ k \in DOMAIN stories
  /\ stories' = [stories EXCEPT ![k] = flipFavorite(@)]
  /\ localStorage' = storiesEffect(localStorage, stories')
  /\ lastOp' = "favorite"
  /\ UNCHANGED <<variant, view, activeStory, currentPageIndex, alertCount,
                 db, live, removals, failLog, genVars, playerVars>>
  /\ loadEffect

\* the page is closed and opened again while no generation is running:
\* every useState and useRef starts over and the start-up effect loads the
\* list from the store
Restart ==
  /\ UNCHANGED <<call, faulty, runVars>>
  /\ genPc = "idle"
  /\ view' = "generator"
  /\ \E ok \in TxOutcomes :
       IF ok \/ variant = "fanout"
         THEN /\ stories' = LoadedStories
              /\ lastOp' = "load"
              /\ UNCHANGED failLog
         ELSE \* getFromDB() rejects and nothing handles it
              /\ stories' = << >>
              /\ lastOp' = "loadfailed"
              /\ failLog' = failLog \cup {LoadUnhandled}
  /\ removals' = << >>
  /\ activeStory' = << >>
  /\ currentPageIndex' = 0
  /\ isNarrating' = FALSE
  /\ audioContextRef' = "null"
  /\ audioSourceRef' = 0
  /\ sources' = << >>
  /\ calls' = << >>
  /\ lastReq' = "none"
  /\ loadPending' = FALSE
  /\ UNCHANGED <<alertCount, db, localStorage, live, genVars, variant>>

\* the application on its first start, the store empty
StoreInit ==
  /\ variant \in {"sequential", "fanout"}
  /\ view = "generator"
  /\ stories = << >>
  /\ activeStory = << >>
  /\ currentPageIndex = 0
  /\ alertCount = 0
  /\ loadPending = FALSE
  /\ db = {}
  /\ localStorage = << >>
  /\ live = {}
  /\ lastOp = "load"
  /\ removals = << >>
  /\ failLog = {}
  /\ faulty = FALSE
  /\ GenIdle
  /\ PlayerIdle

StoreNext ==
  \/ getFromDBReturns
  \/ GenerateAndSave
  \/ \E k \in 1..MaxStories : deleteStory(k)
  \/ removeFromDBReturns
  \/ \E k \in 1..MaxStories : toggleFavorite(k)
  \/ Restart
  \/ \E v \in {"generator", "library"} : SidebarViewChange(v)
  \/ \E k \in 1..MaxStories : openStory(k)
  \/ LibraryButton

\* Saving, deleting and reloading stories, in either build.
SpecStore == StoreInit /\ [][StoreNext]_vars

\* the same first start, with a store whose transactions can fail
FaultyStoreInit ==
  /\ variant \in {"sequential", "fanout"}
  /\ view = "generator"
  /\ stories = << >>
  /\ activeStory = << >>
  /\ currentPageIndex = 0
  /\ alertCount = 0
  /\ loadPending = FALSE
  /\ db = {}
  /\ localStorage = << >>
  /\ live = {}
  /\ lastOp = "load"
  /\ removals = << >>
  /\ failLog = {}
  /\ faulty = TRUE
  /\ GenIdle
  /\ PlayerIdle

\* Saving, deleting and reloading stories while transactions can fail.
SpecStoreFaults == FaultyStoreInit /\ [][StoreNext]_vars

\* C10: the list loaded at a restart holds exactly the stories saved and
\* not deleted since, each of them once.
C10_RestartLoadsLive ==
  lastOp = "load" => /\ Ids(stories) = live
                     /\ Len(stories) = Cardinality(live)

\* C11: when removeFromDB completes for an id that has no record in the
\* store, the store and the story list stay as they are and no error is
\* shown.
C11_DeleteAbsentIdempotent ==
  [][(/\ removals # << >>
      /\ removals' = Tail(removals)
      /\ lastOp' = "delete"
      /\ failLog' = failLog
      /\ Head(removals).id \notin {s.id : s \in db})
       => /\ db' = db
          /\ stories' = stories
          /\ alertCount' = alertCount]_vars

\* C29: whenever no removeFromDB call and no getFromDB call is pending, the
\* story list holds exactly the stories the store of the build holds.
C29_ListMatchesStore ==
  (removals = << >> /\ ~loadPending) =>
    {stories[k] : k \in DOMAIN stories}
      = {LoadedStories[k] : k \in DOMAIN LoadedStories}

\* C12: in every reachable state the story list is ordered by createdAt,
\* newest first.
C12_ListOrderedByRecency ==
  \A i, j \in DOMAIN stories :
    i < j => stories[i].createdAt >= stories[j].createdAt

\* two stories are listed after a restart, and after a generation
C12_Witness ==
  /\ Len(stories) = 2
  /\ lastOp \in {"load", "save"}
  /\ stories[1].createdAt > stories[2].createdAt

\* C13: every persistence operation that failed ended with the error caught
\* by its caller and an alert shown: none was left unhandled, none left its
\* caller waiting for ever.
C13_FailuresReported ==
  \A f \in failLog : f.outcome = "alert"

(***************************************************************************)
(* Library functions called on their own: exportToPDF, generateNarration,  *)
(* generateImageForPage, the audio decoders                                *)
(***************************************************************************)
MaxPdfPages == 2     \* most pages of a story handed to exportToPDF

\* story.title.toUpperCase()
toUpperCase(str) == <<"upper", str>>
\* page.text.replace(/[*_#]/g, '')
stripMarkup(str) == <<"stripped", str>>

\* The pages a stored story can hold: assembled with the generated image,
\* the fanout fallback of a draft with or without its text, and a page whose
\* optional imageUrl is absent.
PdfPages ==
  {Page(Draft(1), generateImageForPage(Draft(1).imagePrompt, "inline", 1),
        Undefined),
   FallbackPage(Draft(1)), FallbackPage(BadDraft(1)),
   Page(Draft(1), Undefined, Undefined)}

PdfStories ==
  {MakeStory(1, <<"title">>, pages) :
     pages \in UNION {[1..n -> PdfPages] : n \in 0..MaxPdfPages}}

\* the left half of a story page: doc.addImage when the page has an
\* imageUrl, and the filled rectangle when it has none or addImage throws
ImageRegion(page, drawn) ==
  IF Truthy(page.imageUrl) /\ drawn
    THEN [kind |-> "image", url |-> page.imageUrl]
    ELSE [kind |-> "blank", url |-> Undefined]

\* one iteration of the loop: doc.addPage() and its two halves
PdfPage(story, i, drawn) ==
  [kind |-> "story", folio |-> i, of |-> Len(story.pages),
   left |-> ImageRegion(story.pages[i], drawn),
   text |-> stripMarkup(story.pages[i].text)]

RECURSIVE PdfLoop(_, _, _, _)
\* the for loop from page i on; doc is the document so far. page.text.replace
\* throws on a page without text, after doc.addPage() and the image.
PdfLoop(story, draws, i, doc) ==
  IF i > Len(story.pages) THEN [status |-> "saved", pages |-> doc]
  ELSE IF story.pages[i].text = Undefined
    THEN [status |-> "thrown", pages |-> << >>]
  ELSE PdfLoop(story, draws, i + 1,
               Append(doc, PdfPage(story, i, draws[i])))

\* exportToPDF(story): the title page, the loop, doc.save(); draws[i] tells
\* whether addImage could draw the image of page i. A throw anywhere leaves
\* no file.
exportToPDF(story, draws) ==
  IF story.title = Undefined THEN [status |-> "thrown", pages |-> << >>]
  ELSE PdfLoop(story, draws, 1,
               <<[kind |-> "title", title |-> toUpperCase(story.title)]>>)

\* a click on an Export button
CallExportToPDF ==
  /\ \E story \in PdfStories :
       \E draws \in [DOMAIN story.pages -> BOOLEAN] :
         call' = [fn |-> "exportToPDF", story |-> story, draws |-> draws,
                  doc |-> exportToPDF(story, draws)]
  /\ UNCHANGED <<appVars, storeVars, genVars, playerVars, faulty, runVars>>

\* C14: exportToPDF completes for every story with a document of one title
\* page followed by one page per story page, in story order, each with its
\* text and with its image or the blank region.
C14_ExportComplete ==
  call.fn = "exportToPDF" =>
    LET N == Len(call.story.pages) IN
    /\ call.doc.status = "saved"
    /\ Len(call.doc.pages) = N + 1
    /\ call.doc.pages[1].kind = "title"
    /\ \A i \in 1..N :
         /\ call.doc.pages[i + 1].kind = "story"
         /\ call.doc.pages[i + 1].folio = i
         /\ call.doc.pages[i + 1].text = stripMarkup(call.story.pages[i].text)
         /\ call.doc.pages[i + 1].left.kind \in {"image", "blank"}

\* ---- generateNarration, request by request ----
MaxAnswers == 4      \* answers the narration service has ready for one call

\* what the service would answer to the 1st, 2nd, ... request of a call
AnswerStreams == [1..MaxAnswers -> NarrationOutcomes]

\* a loop that tries again after every attempt without audio, whatever i is
RECURSIVE narrationAttemptsUnbounded(_, _, _)
narrationAttemptsUnbounded(i, svc, retries) ==
  IF i >= Len(svc) THEN 0
  ELSE IF svc[i + 1] = "audio" THEN 1
  ELSE 1 + narrationAttemptsUnbounded(i + 1, svc, retries)

\* the number of requests the for loop of generateNarration makes from
\* attempt i (0-based) on: one per iteration, until an answer carries audio,
\* the catch block of the last iteration returns, or i exceeds retries
RECURSIVE narrationAttempts(_, _, _)
narrationAttempts(i, svc, retries) ==
  IF i > retries THEN 0
  ELSE IF svc[i + 1] = "audio" THEN 1
  ELSE IF svc[i + 1] = "error" /\ i = retries THEN 1
  ELSE 1 + narrationAttempts(i + 1, svc, retries)

BackoffMs == 1000    \* setTimeout(resolve, 1000 * (i + 1))

\* what the for loop of generateNarration does from attempt i (0-based) on,
\* in order: a request per iteration, and in the catch block of an
\* iteration that is not the last one a wait of 1000 * (i + 1) ms
RECURSIVE narrationTrace(_, _, _)
narrationTrace(i, svc, retries) ==
  IF i > retries THEN << >>
  ELSE IF svc[i + 1] = "audio" THEN <<[ev |-> "request", ms |-> 0]>>
  ELSE IF svc[i + 1] = "error"
    THEN IF i = retries
           THEN <<[ev |-> "request", ms |-> 0]>>
           ELSE <<[ev |-> "request", ms |-> 0],
                  [ev |-> "wait", ms |-> BackoffMs * (i + 1)]>>
                \o narrationTrace(i + 1, svc, retries)
  ELSE <<[ev |-> "request", ms |-> 0]>> \o narrationTrace(i + 1, svc, retries)

CallGenerateNarration ==
  /\ \E text \in {Draft(1).text}, svc \in AnswerStreams :
       call' = [fn |-> "generateNarration", text |-> text, svc |-> svc,
                result |-> generateNarration(text, svc),
                requests |-> narrationAttempts(0, svc, Retries),
                trace |-> narrationTrace(0, svc, Retries)]
  /\ UNCHANGED <<appVars, storeVars, genVars, playerVars, faulty, runVars>>

\* C16: one call of generateNarration makes at most retries + 1 = 3 requests
\* and returns the audio of the first answer that carries one, otherwise
\* undefined, whatever the service answers.
C16_NarrationBounded ==
  call.fn = "generateNarration" =>
    /\ call.requests <= Retries + 1
    /\ call.requests >= 1
    /\ \A k \in 1..(call.requests - 1) : call.svc[k] # "audio"
    /\ call.result = IF call.svc[call.requests] = "audio"
                       THEN AudioBytes(call.text) ELSE Undefined

\* C24: in a call of generateNarration every request after the first comes
\* straight after a wait, each wait is longer than the one before it, and
\* the call ends with a request, not with a wait, whether the attempts
\* threw or were answered without audio.
C24_BackoffBeforeRetry ==
  call.fn = "generateNarration" =>
    LET t == call.trace
        waits == SelectSeq(t, LAMBDA e : e.ev = "wait") IN
    /\ \A k \in 2..Len(t) :
         t[k].ev = "request" => t[k - 1].ev = "wait"
    /\ \A k \in 2..Len(waits) : waits[k].ms > waits[k - 1].ms
    /\ t[Len(t)].ev = "request"

\* every attempt failed: three requests, then undefined
C16_Witness ==
  /\ call.fn = "generateNarration"
  /\ \A k \in DOMAIN call.svc : call.svc[k] = "error"
  /\ call.requests = Retries + 1
  /\ call.result = Undefined

\* ---- generateImageForPage, call by call ----
\* values Math.random() returns
RandomValues == {1, 2}

CallGenerateImageForPage ==
  /\ \E i \in 1..2, o \in ImageOutcomes, rnd \in RandomValues :
       call' = [fn |-> "generateImageForPage", prompt |-> Draft(i).imagePrompt,
                outcome |-> o,
                url |-> generateImageForPage(Draft(i).imagePrompt, o, rnd)]
  /\ UNCHANGED <<appVars, storeVars, genVars, playerVars, faulty, runVars>>

\* C17: two image requests that fail one after the other yield the same
\* imageUrl.
C17_FallbackDeterministic ==
  [][(/\ call.fn = "generateImageForPage"
      /\ call'.fn = "generateImageForPage"
      /\ call.outcome # "inline"
      /\ call'.outcome # "inline")
       => call'.url = call.url]_vars

\* ---- decodeBase64 / decode and customDecodeAudioData / decodeAudioData ----
MaxSamples == 2      \* most PCM samples in a narration payload
SampleRate == 24000  \* the sampleRate argument of both call sites
Int16Scale == 32768  \* dataInt16[...] / 32768.0

\* signed 16-bit samples: the extremes, both signs, both bytes in use
Int16Samples == {-32768, -1, 0, 1, 256, 32767}

\* the service's side: a sample as two bytes, low byte first
SampleBytesLE(v) ==
  LET u == IF v < 0 THEN v + 65536 ELSE v IN <<u % 256, u \div 256>>

RECURSIVE PcmBytes(_)
PcmBytes(samples) ==
  IF samples = << >> THEN << >>
  ELSE SampleBytesLE(Head(samples)) \o PcmBytes(Tail(samples))

\* base64 text is a sequence of 6-bit digits 0..63, with 64 for the "="
\* padding character
IsPad(d) == d = 64

RECURSIVE btoa(_)
\* the service's side: bytes to base64, three bytes to four digits
btoa(bytes) ==
  IF Len(bytes) = 0 THEN << >>
  ELSE IF Len(bytes) = 1
    THEN <<bytes[1] \div 4, (bytes[1] % 4) * 16, 64, 64>>
  ELSE IF Len(bytes) = 2
    THEN <<bytes[1] \div 4, (bytes[1] % 4) * 16 + bytes[2] \div 16,
           (bytes[2] % 16) * 4, 64>>
  ELSE <<bytes[1] \div 4, (bytes[1] % 4) * 16 + bytes[2] \div 16,
         (bytes[2] % 16) * 4 + bytes[3] \div 64, bytes[3] % 64>>
       \o btoa(SubSeq(bytes, 4, Len(bytes)))

RECURSIVE atob(_)
\* atob(base64): four digits to three char codes, fewer before padding
atob(b64) ==
  IF Len(b64) < 4 THEN << >>
  ELSE LET c1 == b64[1] * 4 + b64[2] \div 16 IN
       IF IsPad(b64[3]) THEN <<c1>>
       ELSE LET c2 == (b64[2] % 16) * 16 + b64[3] \div 4 IN
            IF IsPad(b64[4]) THEN <<c1, c2>>
            ELSE <<c1, c2, (b64[3] % 4) * 64 + b64[4]>>
                 \o atob(SubSeq(b64, 5, Len(b64)))

\* decodeBase64: bytes[i] = binaryString.charCodeAt(i)
decodeBase64(base64) ==
  LET binaryString == atob(base64) IN
  [i \in 1..Len(binaryString) |-> binaryString[i]]

\* an Int16Array element read as an unsigned 16-bit number
Uint16At(data, k) == data[2 * k - 1] + 256 * data[2 * k]

\* element k (1-based) of new Int16Array(data.buffer): two bytes, low byte
\* first, as a signed 16-bit number
Int16At(data, k) ==
  LET u == data[2 * k - 1] + 256 * data[2 * k] IN
  IF u >= 32768 THEN u - 65536 ELSE u

\* customDecodeAudioData(data, ctx, sampleRate, numChannels): the
\* Int16Array constructor throws on a byte length that is odd; a sample
\* value is the fraction num / den
customDecodeAudioData(data, sampleRate, numChannels) ==
  IF Len(data) % 2 # 0 THEN [status |-> "thrown"]
  ELSE LET frameCount == (Len(data) \div 2) \div numChannels IN
       [status |-> "decoded", sampleRate |-> sampleRate, numberOfChannels |-> numChannels,
        length |-> frameCount,
        channelData |->
          [channel \in 0..(numChannels - 1) |->
             [i \in 1..frameCount |->
                [num |-> Int16At(data, (i - 1) * numChannels + channel + 1),
                 den |-> Int16Scale]]]]

\* the narration button decodes the payload of the page: PCM samples the
\* service encoded as base64
CallDecodeAudioData ==
  /\ \E samples \in UNION {[1..n -> Int16Samples] : n \in 0..MaxSamples} :
       call' = [fn |-> "customDecodeAudioData", samples |-> samples,
                buffer |-> customDecodeAudioData(
                             decodeBase64(btoa(PcmBytes(samples))),
                             SampleRate, 1)]
  /\ UNCHANGED <<appVars, storeVars, genVars, playerVars, faulty, runVars>>

\* C20: decoding the base64 of mono little-endian 16-bit PCM yields a buffer
\* at 24000 Hz with one frame per sample, frame i being sample i divided by
\* 32768, a value in [-1, 1).
C20_DecodeNormalised ==
  call.fn = "customDecodeAudioData" =>
    /\ call.buffer.status = "decoded"
    /\ call.buffer.sampleRate = 24000
    /\ call.buffer.numberOfChannels = 1
    /\ call.buffer.length = Len(call.samples)
    /\ \A i \in 1..Len(call.samples) :
         LET v == call.buffer.channelData[0][i] IN
         /\ v.num = call.samples[i]
         /\ v.den = 32768
         /\ -v.den <= v.num
         /\ v.num < v.den

\* a payload of two samples, the lowest value and a positive one
C20_Witness ==
  /\ call.fn = "customDecodeAudioData"
  /\ call.samples = <<-32768, 256>>
  /\ call.buffer.length = 2
  /\ call.buffer.channelData[0][1].num = -32768

\* ---- the narration request of a page: mood and voice ----
Moods == {"Epic", "Funny", "Spooky", "Whimsical", "Dark", "Hopeful",
          "Melancholic", "Tense"}

\* the values of the Voice setting of the sequential build: Voice.Male, the
\* default, and another entry of the dropdown
VoiceSettings == {"Voice.Male", "Voice.other"}

voiceMap ==
  [m \in Moods |->
     CASE m = "Epic" -> "Kore"
       [] m = "Funny" -> "Puck"
       [] m = "Spooky" -> "Charon"
       [] m = "Whimsical" -> "Zephyr"
       [] m = "Dark" -> "Charon"
       [] m = "Hopeful" -> "Kore"
       [] m = "Melancholic" -> "Fenrir"
       [] m = "Tense" -> "Fenrir"]

\* voiceMap[mood] || 'Kore'
voiceName(mood) == IF mood \in DOMAIN voiceMap THEN voiceMap[mood] ELSE "Kore"

\* the second argument handleGenerate gives generateNarration:
\* sequential: voice; fanout: mood
narrationMoodArgument(mood, voice) ==
  IF variant = "sequential" THEN voice ELSE mood

\* handleGenerate calls generateNarration for a page; the request names a
\* tone (`Read this with a ${mood} tone`) and a prebuilt voice
CallNarrationRequest ==
  /\ \E mood \in Moods, voice \in VoiceSettings :
       LET arg == narrationMoodArgument(mood, voice) IN
       call' = [fn |-> "narrationRequest", mood |-> mood, voice |-> voice,
                tone |-> arg, voiceName |-> voiceName(arg)]
  /\ UNCHANGED <<appVars, storeVars, genVars, playerVars, faulty, runVars>>

\* C25: the narration request of a page names the mood selected for the
\* story as its tone and the voice the voice map assigns to that mood.
C25_VoiceFollowsMood ==
  call.fn = "narrationRequest" =>
    /\ call.tone = call.mood
    /\ call.voiceName = voiceMap[call.mood]

CallsNext ==
  \/ CallNarrationRequest
  \/ CallExportToPDF
  \/ CallGenerateNarration
  \/ CallGenerateImageForPage
  \/ CallDecodeAudioData

\* The library functions applied to the arguments the application can pass.
SpecCalls == StoreInit /\ [][CallsNext]_vars

(***************************************************************************)
(* Further properties of the generation run, the player and the store      *)
(***************************************************************************)
\* the URL generateImageForPage returns when the request succeeded
Generated(url) == Len(url) = 2 /\ url[1] = "data:image/png;base64,"

\* C15: when the image request of a page succeeded, the step in which its
\* narration call ends assembles the page with that image, whatever the
\* narration call did.
C15_ImageIndependentOfNarration ==
  [][/\ (/\ variant = "sequential"
         /\ genPc = "narration"
         /\ genPc' # "narration"
         /\ Generated(imgUrl))
          => /\ Len(finalPages') = Len(finalPages) + 1
             /\ finalPages'[Len(finalPages')].imageUrl = imgUrl
     /\ \A i \in DOMAIN tasks :
          (/\ variant = "fanout"
           /\ tasks[i].pc = "narration"
           /\ tasks'[i].pc = "done"
           /\ Generated(tasks[i].page.imageUrl))
            => tasks'[i].page.imageUrl = tasks[i].page.imageUrl]_vars

\* C18: the step in which a playing source reaches its end leaves
\* isNarrating false.
C18_NaturalEndIdle ==
  [][\A k \in DOMAIN sources :
       (sources[k].st = "playing" /\ sources'[k].st = "ended")
         => ~isNarrating']_vars

\* a clip was started, played to its end, and the player is idle
C18_Witness ==
  /\ \E k \in DOMAIN sources : sources[k].st = "ended"
  /\ Playing(sources) = {}
  /\ ~isNarrating

\* the stories in the store of the running build
StoredStories ==
  IF variant = "sequential" THEN db
  ELSE IF localStorage # << >>
    THEN {localStorage[1][k] : k \in DOMAIN localStorage[1]} ELSE {}

====
